---- MODULE Spec2Model ----
(***************************************************************************)
(* A model of express-ts-starter: the route loader (src/RouteLoader.ts),   *)
(* the contract builder (src/contracts/ContractBuilder.ts) and the         *)
(* validation middleware that runs a built contract in front of a handler. *)
(*                                                                         *)
(* Text is a sequence of tokens: a path is a sequence of one-character     *)
(* strings, a fixed fragment of a message is one token.                    *)
(***************************************************************************)
EXTENDS Integers, Sequences, FiniteSets, TLC

\* ------------------------------------------------------------------------
\* Bounds
\* ------------------------------------------------------------------------

\* The longest candidate list file discovery returns.
MaxFiles == 3

\* ------------------------------------------------------------------------
\* JavaScript values used by the loader
\* ------------------------------------------------------------------------

\* The value of an absent argument or of a function that returns nothing.
Undefined == [t |-> "undefined"]

Null == [t |-> "null"]

\* An Error object: its name and its message (a sequence of tokens).
ErrorVal(name, text) == [t |-> "error", name |-> name, text |-> text]

StringVal(s) == [t |-> "string", v |-> s]

\* What a module's top-level code or its registration function may throw.
ThrownValues == { ErrorVal("Error", <<"boom">>), StringVal("oops"), Null }

\* The TypeError of calling something that is not a function.
NotAFunction(what) == ErrorVal("TypeError", <<what, " is not a function">>)

\* The TypeError of reading a property of undefined or null.
CannotRead(prop) ==
    ErrorVal("TypeError", <<"Cannot read properties of null (reading '", prop, "')">>)

\* e.toString(): an Error gives "<name>: <message>", a string gives itself; null has
\* no properties, so the call itself throws a TypeError.
toStringOf(e) ==
    CASE e.t = "error"  -> [ok |-> TRUE, text |-> <<e.name, ": ">> \o e.text]
      [] e.t = "string" -> [ok |-> TRUE, text |-> <<e.v>>]
      [] OTHER          -> [ok |-> FALSE, error |-> CannotRead("toString")]

\* ------------------------------------------------------------------------
\* Paths (path.extname, String.prototype.toLowerCase) and the file system
\* ------------------------------------------------------------------------

\* The paths file discovery may return, relative to the working directory.
P_a   == <<"r", "/", "a", ".", "t", "s">>
P_b   == <<"r", "/", "b", ".", "T", "S">>
P_c   == <<"r", "/", "c", ".", "j", "s">>
P_d   == <<"r", "/", "d", ".", "J", "s">>
P_dir == <<"r", "/", "s", ".", "t", "s">>
P_e   == <<"r", "/", "e", ".", "t", "s">>
P_gone == <<"r", "/", "g", ".", "j", "s">>

Paths == { P_a, P_b, P_c, P_d, P_e, P_dir, P_gone }

\* What fs.statSync finds at a path: a regular file, a directory, or nothing (the
\* entry was removed after discovery), in which case statSync throws.
FsKind(p) ==
    CASE p = P_dir  -> "dir"
      [] p = P_gone -> "missing"
      [] OTHER      -> "file"

LowerChar(c) ==
    CASE c = "T" -> "t"
      [] c = "S" -> "s"
      [] c = "J" -> "j"
      [] OTHER   -> c

toLowerCase(s) == [k \in 1..Len(s) |-> LowerChar(s[k])]

\* Index of the last occurrence of c in s, 0 when there is none.
LastIndexOf(s, c) ==
    LET hits == { k \in 1..Len(s) : s[k] = c }
    IN  IF hits = {} THEN 0 ELSE CHOOSE k \in hits : \A j \in hits : j <= k

\* path.extname: from the last "." of the last path segment to the end; "" when the
\* segment has no "." or only a leading one.
extname(p) ==
    LET slash == LastIndexOf(p, "/")
        dot   == LastIndexOf(p, ".")
    IN  IF dot <= slash + 1 THEN <<>> ELSE SubSeq(p, dot, Len(p))

\* ------------------------------------------------------------------------
\* Routers and route modules
\* ------------------------------------------------------------------------

\* Router(): a router with no entry. A router is its ordered list of entries.
NewRouter == [t |-> "router", entries |-> <<>>]

Promise == [t |-> "promise"]

\* The entry the module at path p registers: one (method, path) of its own.
RouteOf(p) == [method |-> "get", path |-> p]

\* What a registration function does with the router it receives:
\*   register  router.get(...); return router        (as in the example route module)
\*   replace   const r = Router(); r.get(...); return r
\*   noreturn  router.get(...); and no return statement
\*   async     an async function: its body runs later, the call returns a promise
\*   throw     throws a value
Behaviours == { "register", "replace", "noreturn", "async" }

\* What import() resolves to: a module namespace whose default export is missing,
\* falsy (null, 0), a truthy value that is no function, or a function.
Modules ==
    { [def |-> d] : d \in { "missing", "falsy", "object" } }
    \cup { [def |-> "function", does |-> b] : b \in Behaviours }
    \cup { [def |-> "function", does |-> "throw", e |-> e] : e \in ThrownValues }

\* routeModule.default || routeModule: the default export when it is truthy, the
\* namespace object otherwise. Only a function default export can be called.
Callable(m) == m.def = "function"

\* router.get(...) on the received value: registers on a router, throws on anything else.
RouterGet(r, p) ==
    CASE r.t = "router" ->
            [threw |-> FALSE, router |-> [r EXCEPT !.entries = Append(@, RouteOf(p))]]
      [] r.t \in { "undefined", "null" } ->
            [threw |-> TRUE, e |-> CannotRead("get")]
      [] OTHER ->
            [threw |-> TRUE, e |-> NotAFunction("router.get")]

\* (routeModule.default || routeModule)(router) for the module m loaded from p:
\* what the call throws, or the value it returns.
CallModule(m, p, r) ==
    IF ~Callable(m) THEN [threw |-> TRUE, e |-> NotAFunction("(intermediate value)")]
    ELSE CASE m.does = "throw"   -> [threw |-> TRUE, e |-> m.e]
           [] m.does = "async"   -> [threw |-> FALSE, value |-> Promise]
           [] m.does = "replace" ->
                [threw |-> FALSE, value |-> RouterGet(NewRouter, p).router]
           [] m.does = "register" ->
                LET g == RouterGet(r, p)
                IN  IF g.threw THEN g ELSE [threw |-> FALSE, value |-> g.router]
           [] m.does = "noreturn" ->
                LET g == RouterGet(r, p)
                IN  IF g.threw THEN g ELSE [threw |-> FALSE, value |-> Undefined]

\* ------------------------------------------------------------------------
\* RouteLoader: its inputs and local state
\* ------------------------------------------------------------------------

VARIABLES
    nodeEnv,            \* process.env.NODE_ENV
    globPattern,        \* the argument of RouteLoader
    pc,                 \* idle, discovering, loading, importing, assembled, failed
    pattern,            \* the pattern handed to glob
    expectedExtension,
    files,
    idx,                \* position of the for loop in files
    router,
    result,             \* the settled promise of RouteLoader
    console,            \* what console.error received
    log                 \* history: the imports and registration calls, in order

loaderVars ==
    <<nodeEnv, globPattern, pc, pattern, expectedExtension, files, idx, router,
      result, console, log>>

NodeEnvs == { Undefined, StringVal("development"), StringVal("production") }

GlobPatterns == { Undefined, StringVal(""), StringVal("custom/*") }

\* JavaScript truthiness of the values a pattern argument takes.
Truthy(v) ==
    CASE v.t \in { "undefined", "null" } -> FALSE
      [] v.t = "string"                  -> v.v # ""
      [] OTHER                           -> TRUE

\* A variant that takes every value but 'production' for development.
isDevelopmentUnlessProduction(env) == env # StringVal("production")

isDevelopment(env) == env = StringVal("development")

defaultPattern(env) ==
    IF isDevelopment(env) THEN StringVal("src/routes/*.ts")
    ELSE StringVal("dist/routes/*.js")

\* globPattern || defaultPattern
PatternOf(arg, env) == IF Truthy(arg) THEN arg ELSE defaultPattern(env)

ExtensionOf(env) ==
    IF isDevelopment(env) THEN <<".", "t", "s">> ELSE <<".", "j", "s">>

\* The condition of the if in the loop, once statSync has returned.
PassesFilter(p, ext) ==
    /\ FsKind(p) = "file"
    /\ toLowerCase(extname(p)) = ext

\* The error the catch block throws for file p and caught value e: the wrapped
\* message, or the TypeError of e.toString() when e has no toString.
WrapError(p, e) ==
    LET s == toStringOf(e)
    IN  IF s.ok
        THEN ErrorVal("Error",
                 <<"Error when loading route file: ">> \o p \o <<" [ ">>
                 \o s.text \o <<" ]">>)
        ELSE s.error

\* The lists glob may resolve to: distinct paths, in any order.
RECURSIVE ListsOf(_)
ListsOf(n) ==
    IF n = 0 THEN { <<>> }
    ELSE LET shorter == ListsOf(n - 1)
         IN  shorter \cup
             { Append(l, p) : l \in { m \in shorter : Len(m) = n - 1 }, p \in Paths }

CandidateLists ==
    { l \in ListsOf(MaxFiles) : \A a, b \in 1..Len(l) : a # b => l[a] # l[b] }

Pending == [state |-> "pending"]
Resolved(v) == [state |-> "resolved", value |-> v]
Rejected(e) == [state |-> "rejected", error |-> e]

LoaderInit ==
    /\ nodeEnv \in NodeEnvs
    /\ globPattern \in GlobPatterns
    /\ pc = "idle"
    /\ pattern = Undefined
    /\ expectedExtension = <<>>
    /\ files = <<>>
    /\ idx = 0
    /\ router = Undefined
    /\ result = Pending
    /\ console = <<>>
    /\ log = <<>>

\* Lines 15-28: the locals are set and glob is called.
Start ==
    /\ pc = "idle"
    /\ router' = NewRouter
    /\ files' = <<>>
    /\ pattern' = PatternOf(globPattern, nodeEnv)
    /\ expectedExtension' = ExtensionOf(nodeEnv)
    /\ pc' = "discovering"
    /\ UNCHANGED <<nodeEnv, globPattern, idx, result, console, log>>

\* Line 28: glob resolves with a list of paths.
GlobResolves ==
    /\ pc = "discovering"
    /\ \E l \in CandidateLists : files' = l
    /\ idx' = 1
    /\ pc' = "loading"
    /\ UNCHANGED <<nodeEnv, globPattern, pattern, expectedExtension, router, result,
                   console, log>>

\* A variant in which the discovery error is fatal: it is logged and rethrown.
GlobThrowsFatal ==
    /\ pc = "discovering"
    /\ \E e \in ThrownValues :
          /\ console' = Append(console, e)
          /\ log' = Append(log, [ev |-> "globThrew", at |-> 0, e |-> e])
          /\ result' = Rejected(e)
    /\ pc' = "failed"
    /\ UNCHANGED <<nodeEnv, globPattern, pattern, expectedExtension, files, idx, router>>

\* Lines 29-31: glob rejects; the error is logged and files stays empty.
GlobThrows ==
    /\ pc = "discovering"
    /\ \E e \in ThrownValues :
          /\ console' = Append(console, e)
          /\ log' = Append(log, [ev |-> "globThrew", at |-> 0, e |-> e])
    /\ idx' = 1
    /\ pc' = "loading"
    /\ UNCHANGED <<nodeEnv, globPattern, pattern, expectedExtension, files, router,
                   result>>

AtCandidate == pc = "loading" /\ idx <= Len(files)

\* Line 35: statSync throws for a path that is no longer there; nothing catches it.
StatThrows ==
    /\ AtCandidate
    /\ FsKind(files[idx]) = "missing"
    /\ result' = Rejected(ErrorVal("Error",
                     <<"ENOENT: no such file or directory, stat '">> \o files[idx]
                     \o <<"'">>))
    /\ log' = Append(log, [ev |-> "statThrew", at |-> idx])
    /\ pc' = "failed"
    /\ UNCHANGED <<nodeEnv, globPattern, pattern, expectedExtension, files, idx, router,
                   console>>

\* A variant of the loop that does not move on from a candidate it skips.
SkipStays ==
    /\ AtCandidate
    /\ FsKind(files[idx]) # "missing"
    /\ ~PassesFilter(files[idx], expectedExtension)
    /\ UNCHANGED <<nodeEnv, globPattern, pc, pattern, expectedExtension, files, idx,
                   router, result, console, log>>

\* Lines 34-37: the candidate does not pass the filter; the loop moves on.
Skip ==
    /\ AtCandidate
    /\ FsKind(files[idx]) # "missing"
    /\ ~PassesFilter(files[idx], expectedExtension)
    /\ idx' = idx + 1
    /\ UNCHANGED <<nodeEnv, globPattern, pc, pattern, expectedExtension, files, router,
                   result, console, log>>

\* Line 39: the candidate passes the filter and its import starts.
BeginImport ==
    /\ AtCandidate
    /\ FsKind(files[idx]) # "missing"
    /\ PassesFilter(files[idx], expectedExtension)
    /\ log' = Append(log, [ev |-> "import", at |-> idx])
    /\ pc' = "importing"
    /\ UNCHANGED <<nodeEnv, globPattern, pattern, expectedExtension, files, idx, router,
                   result, console>>

\* Lines 39, 41-45: the import rejects.
ImportThrows ==
    /\ pc = "importing"
    /\ \E e \in ThrownValues :
          /\ result' = Rejected(WrapError(files[idx], e))
          /\ log' = Append(log, [ev |-> "importThrew", at |-> idx, e |-> e])
    /\ pc' = "failed"
    /\ UNCHANGED <<nodeEnv, globPattern, pattern, expectedExtension, files, idx, router,
                   console>>

\* A variant that hands every module a router of its own instead of the shared one.
RegisterReturnsFresh ==
    /\ pc = "importing"
    /\ \E m \in Modules :
          LET c == CallModule(m, files[idx], NewRouter)
          IN  /\ ~c.threw
              /\ router' = c.value
              /\ log' = log \o << [ev |-> "call", at |-> idx, arg |-> NewRouter, does |-> m.does],
                                  [ev |-> "return", at |-> idx, value |-> c.value] >>
    /\ idx' = idx + 1
    /\ pc' = "loading"
    /\ UNCHANGED <<nodeEnv, globPattern, pattern, expectedExtension, files, result,
                   console>>

\* A variant that invokes the registration function twice for one import.
RegisterReturnsTwice ==
    /\ pc = "importing"
    /\ \E m \in Modules :
          LET c1 == CallModule(m, files[idx], router)
              c2 == CallModule(m, files[idx], c1.value)
          IN  /\ ~c1.threw
              /\ ~c2.threw
              /\ router' = c2.value
              /\ log' = log \o << [ev |-> "call", at |-> idx, arg |-> router, does |-> m.does],
                                  [ev |-> "return", at |-> idx, value |-> c1.value],
                                  [ev |-> "call", at |-> idx, arg |-> c1.value, does |-> m.does],
                                  [ev |-> "return", at |-> idx, value |-> c2.value] >>
    /\ idx' = idx + 1
    /\ pc' = "loading"
    /\ UNCHANGED <<nodeEnv, globPattern, pattern, expectedExtension, files, result,
                   console>>

\* A variant that keeps the entries of the router a module replaces: the entries
\* of the old router are put in front of those of the router the module returned.
RegisterReturnsMerging ==
    /\ pc = "importing"
    /\ \E m \in Modules :
          LET c == CallModule(m, files[idx], router)
          IN  /\ ~c.threw
              /\ router' =
                    IF m.does = "replace" /\ router.t = "router"
                    THEN [c.value EXCEPT !.entries = router.entries \o @]
                    ELSE c.value
              /\ log' = log \o << [ev |-> "call", at |-> idx, arg |-> router, does |-> m.does],
                                  [ev |-> "return", at |-> idx, value |-> c.value] >>
    /\ idx' = idx + 1
    /\ pc' = "loading"
    /\ UNCHANGED <<nodeEnv, globPattern, pattern, expectedExtension, files, result,
                   console>>

\* Lines 39-40: the import resolves, the call returns, its value becomes router.
RegisterReturns ==
    /\ pc = "importing"
    /\ \E m \in Modules :
          LET c == CallModule(m, files[idx], router)
          IN  /\ ~c.threw
              /\ router' = c.value
              /\ log' = log \o << [ev |-> "call", at |-> idx, arg |-> router, does |-> m.does],
                                  [ev |-> "return", at |-> idx, value |-> c.value] >>
    /\ idx' = idx + 1
    /\ pc' = "loading"
    /\ UNCHANGED <<nodeEnv, globPattern, pattern, expectedExtension, files, result,
                   console>>

\* A variant whose catch block logs the error and goes on with the next candidate.
RegisterThrowsContinues ==
    /\ pc = "importing"
    /\ \E m \in Modules :
          LET c == CallModule(m, files[idx], router)
          IN  /\ c.threw
              /\ console' = Append(console, c.e)
              /\ log' = log \o
                    (IF Callable(m)
                     THEN << [ev |-> "call", at |-> idx, arg |-> router, does |-> m.does],
                             [ev |-> "threw", at |-> idx, e |-> c.e] >>
                     ELSE << [ev |-> "notCallable", at |-> idx, e |-> c.e] >>)
    /\ idx' = idx + 1
    /\ pc' = "loading"
    /\ UNCHANGED <<nodeEnv, globPattern, pattern, expectedExtension, files, router,
                   result>>

\* Lines 39-45: the import resolves and the call throws: the module has nothing to
\* call, or the registration function throws.
RegisterThrows ==
    /\ pc = "importing"
    /\ \E m \in Modules :
          LET c == CallModule(m, files[idx], router)
          IN  /\ c.threw
              /\ result' = Rejected(WrapError(files[idx], c.e))
              /\ log' = log \o
                    (IF Callable(m)
                     THEN << [ev |-> "call", at |-> idx, arg |-> router, does |-> m.does],
                             [ev |-> "threw", at |-> idx, e |-> c.e] >>
                     ELSE << [ev |-> "notCallable", at |-> idx, e |-> c.e] >>)
    /\ pc' = "failed"
    /\ UNCHANGED <<nodeEnv, globPattern, pattern, expectedExtension, files, idx, router,
                   console>>

\* Line 49: the loop is over and the router is returned.
Return ==
    /\ pc = "loading"
    /\ idx > Len(files)
    /\ result' = Resolved(router)
    /\ pc' = "assembled"
    /\ UNCHANGED <<nodeEnv, globPattern, pattern, expectedExtension, files, idx, router,
                   console, log>>

\* ------------------------------------------------------------------------
\* Schemas: the part of zod the contracts use
\* ------------------------------------------------------------------------

\* An object value: its own keys and their values.
ObjectVal(f) == [t |-> "object", fields |-> f]

NumberVal(n) == [t |-> "number", n |-> n]

EmptyObject == ObjectVal(<<>>)

\* obj[key]: undefined when obj is no object or has no such key.
Get(obj, key) ==
    IF obj.t = "object" /\ key \in DOMAIN obj.fields THEN obj.fields[key]
    ELSE Undefined

\* z.object(shape): unknown keys are stripped (zod's default), not rejected.
z_object(shape) == [t |-> "object", shape |-> shape, strict |-> FALSE]

\* z.object(shape).strict(): an unknown key is a violation.
z_strictObject(shape) == [t |-> "object", shape |-> shape, strict |-> TRUE]

\* z.string({ message })
z_string(message) == [t |-> "string", message |-> message]

\* z.string().regex(/^\+?[1-9]\d{1,14}$/, { message })
z_phone(message) == [t |-> "phone", message |-> message]

\* z.coerce.number().min(least)
z_coerceNumber(least) == [t |-> "coerceNumber", min |-> least]

z_optional(inner) == [t |-> "optional", inner |-> inner]

z_default(inner, value) == [t |-> "default", inner |-> inner, value |-> value]

Digits == <<"0", "1", "2", "3", "4", "5", "6", "7", "8", "9">>

IsDigit(c) == \E d \in 1..10 : Digits[d] = c

DigitValue(c) == (CHOOSE d \in 1..10 : Digits[d] = c) - 1

\* The text matches /^\+?[1-9]\d{1,14}$/.
MatchesPhone(text) ==
    LET body == IF Len(text) > 0 /\ text[1] = "+" THEN Tail(text) ELSE text
    IN  /\ Len(body) >= 2
        /\ Len(body) <= 15
        /\ \A k \in 1..Len(body) : IsDigit(body[k])
        /\ body[1] # "0"

RECURSIVE DecimalValue(_)
DecimalValue(text) ==
    IF text = <<>> THEN 0
    ELSE 10 * DecimalValue(SubSeq(text, 1, Len(text) - 1)) + DigitValue(text[Len(text)])

\* Number(v) for a number or for a non-empty string: the number the decimal
\* digits spell, NaN for any other text.
ToNumber(v) ==
    CASE v.t = "number" -> v
      [] v.t = "string" /\ v.v # <<>> /\ (\A k \in 1..Len(v.v) : IsDigit(v.v[k])) ->
            NumberVal(DecimalValue(v.v))
      [] OTHER -> [t |-> "nan"]

Success(data) == [success |-> TRUE, data |-> data]

Failure(issues) == [success |-> FALSE, issues |-> issues]

\* A variant of an issue that keeps the message and loses the field path.
IssueWithoutPath(path, message) == [path |-> <<>>, message |-> message]

Issue(path, message) == [path |-> path, message |-> message]

\* schema.safeParse(value), value being Undefined for an absent one: the parsed
\* data, or every violation found, each with the path of the field it is about.
RECURSIVE Parse(_, _)
Parse(schema, value) ==
    CASE schema.t = "string" ->
            IF value.t = "string" THEN Success(value)
            ELSE Failure({ Issue(<<>>, schema.message) })
      [] schema.t = "phone" ->
            IF value.t # "string" THEN Failure({ Issue(<<>>, "Required") })
            ELSE IF MatchesPhone(value.v) THEN Success(value)
            ELSE Failure({ Issue(<<>>, schema.message) })
      [] schema.t = "coerceNumber" ->
            LET n == ToNumber(value)
            IN  IF n.t = "nan"
                THEN Failure({ Issue(<<>>, "Expected number, received nan") })
                ELSE IF n.n < schema.min
                THEN Failure({ Issue(<<>>, "Number must be greater than or equal to 1") })
                ELSE Success(n)
      [] schema.t = "optional" ->
            IF value.t = "undefined" THEN Success(Undefined)
            ELSE Parse(schema.inner, value)
      [] schema.t = "default" ->
            IF value.t = "undefined" THEN Parse(schema.inner, schema.value)
            ELSE Parse(schema.inner, value)
      [] schema.t = "object" ->
            IF value.t # "object" THEN Failure({ Issue(<<>>, "Required") })
            ELSE LET keys == DOMAIN schema.shape
                     r == [k \in keys |-> Parse(schema.shape[k], Get(value, k))]
                     unknown == IF schema.strict THEN DOMAIN value.fields \ keys ELSE {}
                     issues ==
                         UNION { { Issue(<<k>> \o i.path, i.message) : i \in r[k].issues } :
                                 k \in { k \in keys : ~r[k].success } }
                         \cup { Issue(<<k>>, "Unrecognized key") : k \in unknown }
                     kept == { k \in keys : r[k].data.t # "undefined"
                                            \/ k \in DOMAIN value.fields }
                 IN  IF issues # {} THEN Failure(issues)
                     ELSE Success(ObjectVal([k \in kept |-> r[k].data]))

\* A variant of the default facet schema that rejects every unknown key.
EMPTY_SCHEMA_Strict == z_strictObject(<<>>)

\* const EMPTY_SCHEMA = z.object({})
EMPTY_SCHEMA == z_object(<<>>)

\* A variant of ExampleSchema whose name is optional.
ExampleSchemaNameOptional ==
    z_object([k \in { "name", "description", "phone" } |->
        CASE k = "name"        -> z_optional(z_string("Name is required"))
          [] k = "description" -> z_string("Description is required")
          [] k = "phone"       -> z_optional(z_phone("Phone number isn't valid"))])

\* ExampleSchema of the example contract.
ExampleSchema ==
    z_object([k \in { "name", "description", "phone" } |->
        CASE k = "name"        -> z_string("Name is required")
          [] k = "description" -> z_string("Description is required")
          [] k = "phone"       -> z_optional(z_phone("Phone number isn't valid"))])

\* The pagination schema of the query setter's documentation (its page field).
PageSchema ==
    z_object([k \in { "page" } |->
        z_default(z_coerceNumber(1), NumberVal(1))])

\* The schema objects of the program, by name: a builder holds references to them.
SchemaOf(name) ==
    CASE name = "EMPTY_SCHEMA"  -> EMPTY_SCHEMA
      [] name = "ExampleSchema" -> ExampleSchema
      [] name = "PageSchema"    -> PageSchema

\* The schemas handed to the facet setters.
SetterSchemas == { "ExampleSchema", "PageSchema" }

\* ------------------------------------------------------------------------
\* ContractBuilder
\* ------------------------------------------------------------------------

\* The most ContractBuilder instances a run creates.
MaxBuilders == 5

Facets == { "body", "query", "params" }

\* new ContractBuilder(body, query, params): the frozen schemas of an instance.
ContractBuilder(b, q, p) == [schemas |-> [body |-> b, query |-> q, params |-> p]]

\* An instance is named by the chain of calls that made it: <<>> is
\* createContract(), Append(this, call) is what that call on instance this made.
SetterCall(f, schema) == [facet |-> f, schema |-> schema]

\* The result of a call that constructs: the heap with the new instance at the
\* address at, and the reference returned.
Allocated(h, at, obj) == [heap |-> (at :> obj) @@ h, ref |-> at]

\* createContract = () => new ContractBuilder(), every facet at its default.
createContract(h, at) ==
    Allocated(h, at, ContractBuilder("EMPTY_SCHEMA", "EMPTY_SCHEMA", "EMPTY_SCHEMA"))

\* A variant of body that sets the facet on the receiver and returns the receiver.
bodyInPlace(h, this, schema, at) ==
    [heap |-> [h EXCEPT ![this].schemas.body = schema], ref |-> this]

\* body(schema): a new instance with this instance's query and params.
body(h, this, schema, at) ==
    Allocated(h, at,
        ContractBuilder(schema, h[this].schemas.query, h[this].schemas.params))

\* A variant of query that starts from the defaults instead of the receiver's facets.
queryFromDefaults(h, this, schema, at) ==
    Allocated(h, at, ContractBuilder("EMPTY_SCHEMA", schema, "EMPTY_SCHEMA"))

\* query(schema): a new instance with this instance's body and params.
query(h, this, schema, at) ==
    Allocated(h, at,
        ContractBuilder(h[this].schemas.body, schema, h[this].schemas.params))

\* params(schema): a new instance with this instance's body and query.
params(h, this, schema, at) ==
    Allocated(h, at,
        ContractBuilder(h[this].schemas.body, h[this].schemas.query, schema))

\* A variant of build that leaves the params facet out of the combined schema.
buildWithoutParams(h, this) ==
    z_object([k \in { "body", "query" } |-> SchemaOf(h[this].schemas[k])])

\* build(): z.object(this.schemas).
build(h, this) == z_object([k \in DOMAIN h[this].schemas |-> SchemaOf(h[this].schemas[k])])

\* The setter of facet f.
Setter(f, h, this, schema, at) ==
    CASE f = "body"   -> body(h, this, schema, at)
      [] f = "query"  -> query(h, this, schema, at)
      [] f = "params" -> params(h, this, schema, at)

VARIABLES
    heap,       \* the ContractBuilder instances, by address
    refOf,      \* the reference each chain of calls returned
    contract    \* the last combined schema build() returned

builderVars == <<heap, refOf, contract>>

None == [t |-> "none"]

BuilderInit ==
    /\ heap = <<>>
    /\ refOf = <<>>
    /\ contract = None

\* const b = createContract()
CallCreateContract ==
    /\ <<>> \notin DOMAIN refOf
    /\ LET c == createContract(heap, <<>>)
       IN  /\ heap' = c.heap
           /\ refOf' = (<<>> :> c.ref) @@ refOf
    /\ UNCHANGED contract

\* chain.f(schema), for a chain of calls evaluated before and a setter f.
CallSetter(f) ==
    /\ Cardinality(DOMAIN refOf) < MaxBuilders
    /\ \E chain \in DOMAIN refOf, schema \in SetterSchemas :
          LET longer == Append(chain, SetterCall(f, schema))
              c == Setter(f, heap, refOf[chain], schema, longer)
          IN  /\ longer \notin DOMAIN refOf
              /\ heap' = c.heap
              /\ refOf' = (longer :> c.ref) @@ refOf
    /\ UNCHANGED contract

CallBody == CallSetter("body")

CallQuery == CallSetter("query")

CallParams == CallSetter("params")

\* A variant of build that hands out the combined schema and puts the facets of
\* the receiver back to their defaults.
CallBuildResets ==
    /\ \E chain \in DOMAIN refOf :
          /\ contract' = build(heap, refOf[chain])
          /\ heap' = [heap EXCEPT ![refOf[chain]] =
                          ContractBuilder("EMPTY_SCHEMA", "EMPTY_SCHEMA", "EMPTY_SCHEMA")]
    /\ UNCHANGED refOf

\* chain.build()
CallBuild ==
    /\ \E chain \in DOMAIN refOf :
          contract' = build(heap, refOf[chain])
    /\ UNCHANGED <<heap, refOf>>

\* ------------------------------------------------------------------------
\* A request through validateContract(contract) and the handler behind it
\* ------------------------------------------------------------------------

\* The most keys a request carries, over its body, query and params.
MaxKeys == 2

Keys == { "name", "description", "phone", "page" }

\* The raw values of a request: strings.
RawVals == { StringVal(<<"x">>), StringVal(<<"4", "2">>) }

Slots == Facets \X Keys

\* The facet f of the request whose keys and values are filled.
FacetObject(filled, f) ==
    ObjectVal([k \in { k \in Keys : <<f, k>> \in DOMAIN filled } |-> filled[<<f, k>>]])

Fillings ==
    UNION { [S -> RawVals] : S \in { S \in SUBSET Slots : Cardinality(S) <= MaxKeys } }

\* The requests: body, query and params objects, or no body at all.
Requests ==
    { [body |-> FacetObject(a, "body"), query |-> FacetObject(a, "query"),
       params |-> FacetObject(a, "params")] : a \in Fillings }
    \cup
    { [body |-> Undefined, query |-> FacetObject(a, "query"),
       params |-> FacetObject(a, "params")] :
          a \in { a \in Fillings : \A slot \in DOMAIN a : slot[1] # "body" } }

Front(seq) == SubSeq(seq, 1, Len(seq) - 1)

\* createContract().f1(s1)...fn(sn): the heap and the reference of the last call.
RECURSIVE Chain(_)
Chain(calls) ==
    IF calls = <<>> THEN createContract(<<>>, <<>>)
    ELSE LET prev == Chain(Front(calls))
             call == calls[Len(calls)]
         IN  Setter(call.facet, prev.heap, prev.ref, call.schema, calls)

\* createContract().f1(s1)...fn(sn).build()
ContractOf(calls) == LET c == Chain(calls) IN build(c.heap, c.ref)

\* ContractsExample = createContract().query(ExampleSchema).build(): its setter calls.
ContractsExampleCalls == << SetterCall("query", "ExampleSchema") >>

\* The chains of a route's contract: each facet set once or not at all.
RouteChains ==
    { SelectSeq(<< SetterCall("body", a["body"]), SetterCall("query", a["query"]),
                   SetterCall("params", a["params"]) >>,
                LAMBDA call : call.schema # "unset") :
          a \in [Facets -> SetterSchemas \cup { "unset" }] }

VARIABLES
    calls,      \* the setter calls that made the route's contract
    request,    \* the request: body, query, params and, once attached, validated
    response,   \* the response sent, None before
    nextCalls,  \* how many times the middleware called next()
    rpc         \* received, handler (next was called), done (a response was sent)

requestVars == <<calls, request, response, nextCalls, rpc>>

RequestInit ==
    /\ calls \in RouteChains
    /\ \E r \in Requests :
          request = [body |-> r.body, query |-> r.query, params |-> r.params,
                     validated |-> Undefined]
    /\ response = None
    /\ nextCalls = 0
    /\ rpc = "received"

\* No request has arrived.
RequestIdle ==
    /\ calls = <<>>
    /\ request = [body |-> Undefined, query |-> EmptyObject, params |-> EmptyObject,
                  validated |-> Undefined]
    /\ response = None
    /\ nextCalls = 0
    /\ rpc = "received"

\* { body: request.body, query: request.query, params: request.params }
RequestInput(r) ==
    ObjectVal([f \in Facets |-> r[f]])

\* The middleware, the contract accepting: the parsed value is attached and next()
\* is called.
ValidateAccepts ==
    /\ rpc = "received"
    /\ LET r == Parse(ContractOf(calls), RequestInput(request))
       IN  /\ r.success
           /\ request' = [request EXCEPT !.validated = r.data]
    /\ nextCalls' = nextCalls + 1
    /\ rpc' = "handler"
    /\ UNCHANGED <<calls, response>>

\* The middleware, the contract rejecting: a 400 response listing the violations;
\* next() is not called.
ValidateRejects ==
    /\ rpc = "received"
    /\ LET r == Parse(ContractOf(calls), RequestInput(request))
       IN  /\ ~r.success
           /\ response' = [status |-> 400, json |-> [errors |-> r.issues]]
    /\ rpc' = "done"
    /\ UNCHANGED <<calls, request, nextCalls>>

\* ExampleController.mymethod: reads validated.query and answers 200.
Handler ==
    /\ rpc = "handler"
    /\ LET q == Get(request.validated, "query")
       IN  response' =
              [status |-> 200,
               json |-> [message |-> "Hello, world!",
                         vars |-> [name |-> Get(q, "name"),
                                   description |-> Get(q, "description"),
                                   phone |-> Get(q, "phone")]]]
    /\ rpc' = "done"
    /\ UNCHANGED <<calls, request, nextCalls>>

\* ------------------------------------------------------------------------
\* Two invocations of RouteLoader in one process
\* ------------------------------------------------------------------------

\* The longest candidate list of each of the two invocations.
MaxFilesEach == 2

Invocations == { 1, 2 }

\* The paths the two invocations may discover.
PathsTwo == { P_a, P_b, P_c, P_gone }

CandidateListsTwo ==
    { l \in ListsOf(MaxFilesEach) :
        /\ \A k \in 1..Len(l) : l[k] \in PathsTwo
        /\ \A a, b \in 1..Len(l) : a # b => l[a] # l[b] }

\* What import(path) settles with: a module, or the value its evaluation threw.
\* The process keeps the outcome of the first import of a path for every later one.
ImportOutcomes ==
    { [ok |-> TRUE, module |-> m] :
        m \in { m \in Modules : m.def = "function" /\ m.does # "async"
                                /\ (m.does = "throw" => m.e.t = "error") } }
    \cup { [ok |-> FALSE, e |-> ErrorVal("Error", <<"boom">>)] }

VARIABLES
    inv,        \* the locals of each invocation, and its settled promise
    imported    \* the module registry of the process: path -> outcome of import

twoVars == <<inv, imported>>

\* The locals of an invocation before its first line ran; regs is history: the
\* paths of the modules whose registration function this invocation called.
Locals ==
    [pc |-> "idle", pattern |-> Undefined, expectedExtension |-> <<>>, files |-> <<>>,
     idx |-> 0, router |-> Undefined, result |-> Pending, regs |-> <<>>]

TwoIdle ==
    /\ inv = [i \in Invocations |-> Locals]
    /\ imported = <<>>

\* Lines 15-28 of invocation i, called with any pattern argument.
StartOf(i) ==
    /\ inv[i].pc = "idle"
    /\ \E g \in GlobPatterns :
          inv' = [inv EXCEPT ![i] =
                    [@ EXCEPT !.router = NewRouter,
                              !.files = <<>>,
                              !.pattern = PatternOf(g, nodeEnv),
                              !.expectedExtension = ExtensionOf(nodeEnv),
                              !.pc = "discovering"]]
    /\ UNCHANGED <<imported, console>>

\* Line 28 of invocation i: glob resolves.
GlobResolvesOf(i) ==
    /\ inv[i].pc = "discovering"
    /\ \E l \in CandidateListsTwo :
          inv' = [inv EXCEPT ![i] = [@ EXCEPT !.files = l, !.idx = 1, !.pc = "loading"]]
    /\ UNCHANGED <<imported, console>>

\* Lines 29-31 of invocation i: glob rejects and the error is logged.
GlobThrowsOf(i) ==
    /\ inv[i].pc = "discovering"
    /\ Len(console) < Cardinality(Invocations)
    /\ console' = Append(console, ErrorVal("Error", <<"boom">>))
    /\ inv' = [inv EXCEPT ![i] = [@ EXCEPT !.idx = 1, !.pc = "loading"]]
    /\ UNCHANGED imported

AtCandidateOf(i) == inv[i].pc = "loading" /\ inv[i].idx <= Len(inv[i].files)

\* The candidate invocation i is at.
FileOf(i) == inv[i].files[inv[i].idx]

\* Line 35 of invocation i: statSync throws for a path that is no longer there.
StatThrowsOf(i) ==
    /\ AtCandidateOf(i)
    /\ FsKind(FileOf(i)) = "missing"
    /\ inv' = [inv EXCEPT ![i] =
                 [@ EXCEPT !.result = Rejected(ErrorVal("Error",
                                <<"ENOENT: no such file or directory, stat '">>
                                \o FileOf(i) \o <<"'">>)),
                           !.pc = "failed"]]
    /\ UNCHANGED <<imported, console>>

\* Lines 34-37 of invocation i: the candidate does not pass the filter.
SkipOf(i) ==
    /\ AtCandidateOf(i)
    /\ FsKind(FileOf(i)) # "missing"
    /\ ~PassesFilter(FileOf(i), inv[i].expectedExtension)
    /\ inv' = [inv EXCEPT ![i] = [@ EXCEPT !.idx = @ + 1]]
    /\ UNCHANGED <<imported, console>>

\* Line 39 of invocation i: the candidate passes the filter, its import starts.
BeginImportOf(i) ==
    /\ AtCandidateOf(i)
    /\ FsKind(FileOf(i)) # "missing"
    /\ PassesFilter(FileOf(i), inv[i].expectedExtension)
    /\ inv' = [inv EXCEPT ![i] = [@ EXCEPT !.pc = "importing"]]
    /\ UNCHANGED <<imported, console>>

\* The outcomes the pending import of invocation i may settle with: the one the
\* registry holds for the path, any outcome when the path was never imported.
OutcomesFor(i) ==
    IF FileOf(i) \in DOMAIN imported THEN { imported[FileOf(i)] } ELSE ImportOutcomes

\* Lines 39, 41-45 of invocation i: the import rejects.
ImportThrowsOf(i) ==
    /\ inv[i].pc = "importing"
    /\ \E o \in OutcomesFor(i) :
          /\ ~o.ok
          /\ imported' = (FileOf(i) :> o) @@ imported
          /\ inv' = [inv EXCEPT ![i] =
                       [@ EXCEPT !.result = Rejected(WrapError(FileOf(i), o.e)),
                                 !.pc = "failed"]]
    /\ UNCHANGED console

\* A variant in which router is one variable of the module, shared by the
\* invocations, instead of a local of each.
RegisterReturnsSharedOf(i) ==
    /\ inv[i].pc = "importing"
    /\ \E o \in OutcomesFor(i) :
          /\ o.ok
          /\ LET c == CallModule(o.module, FileOf(i), inv[i].router)
             IN  /\ ~c.threw
                 /\ imported' = (FileOf(i) :> o) @@ imported
                 /\ inv' = [j \in Invocations |->
                              IF j = i
                              THEN [inv[j] EXCEPT !.router = c.value,
                                                  !.regs = Append(@, FileOf(i)),
                                                  !.idx = @ + 1,
                                                  !.pc = "loading"]
                              ELSE [inv[j] EXCEPT !.router = c.value]]
    /\ UNCHANGED console

\* Lines 39-40 of invocation i: the import resolves, the call returns and its
\* value becomes the router of this invocation.
RegisterReturnsOf(i) ==
    /\ inv[i].pc = "importing"
    /\ \E o \in OutcomesFor(i) :
          /\ o.ok
          /\ LET c == CallModule(o.module, FileOf(i), inv[i].router)
             IN  /\ ~c.threw
                 /\ imported' = (FileOf(i) :> o) @@ imported
                 /\ inv' = [inv EXCEPT ![i] =
                              [@ EXCEPT !.router = c.value,
                                        !.regs = Append(@, FileOf(i)),
                                        !.idx = @ + 1,
                                        !.pc = "loading"]]
    /\ UNCHANGED console

\* Lines 39-45 of invocation i: the import resolves and the call throws.
RegisterThrowsOf(i) ==
    /\ inv[i].pc = "importing"
    /\ \E o \in OutcomesFor(i) :
          /\ o.ok
          /\ LET c == CallModule(o.module, FileOf(i), inv[i].router)
             IN  /\ c.threw
                 /\ imported' = (FileOf(i) :> o) @@ imported
                 /\ inv' = [inv EXCEPT ![i] =
                              [@ EXCEPT !.result = Rejected(WrapError(FileOf(i), c.e)),
                                        !.regs = Append(@, FileOf(i)),
                                        !.pc = "failed"]]
    /\ UNCHANGED console

\* Line 49 of invocation i.
ReturnOf(i) ==
    /\ inv[i].pc = "loading"
    /\ inv[i].idx > Len(inv[i].files)
    /\ inv' = [inv EXCEPT ![i] = [@ EXCEPT !.result = Resolved(inv[i].router),
                                           !.pc = "assembled"]]
    /\ UNCHANGED <<imported, console>>

\* The steps of the two invocations, in any interleaving.
TwoStart == \E i \in Invocations : StartOf(i)
TwoGlobResolves == \E i \in Invocations : GlobResolvesOf(i)
TwoGlobThrows == \E i \in Invocations : GlobThrowsOf(i)
TwoStatThrows == \E i \in Invocations : StatThrowsOf(i)
TwoSkip == \E i \in Invocations : SkipOf(i)
TwoBeginImport == \E i \in Invocations : BeginImportOf(i)
TwoImportThrows == \E i \in Invocations : ImportThrowsOf(i)
TwoRegisterReturns == \E i \in Invocations : RegisterReturnsOf(i)
TwoRegisterThrows == \E i \in Invocations : RegisterThrowsOf(i)
TwoReturn == \E i \in Invocations : ReturnOf(i)

\* What is left alone by the steps of the two invocations.
TwoFrame ==
    UNCHANGED <<nodeEnv, globPattern, pc, pattern, expectedExtension, files, idx, router,
                result, log, builderVars, requestVars>>

vars == <<loaderVars, builderVars, requestVars, twoVars>>

\* No call of RouteLoader has begun.
LoaderIdle ==
    /\ LoaderInit
    /\ nodeEnv = Undefined
    /\ globPattern = Undefined

Init == LoaderInit /\ BuilderInit /\ RequestIdle /\ TwoIdle

Next ==
    \/ Start /\ UNCHANGED <<builderVars, requestVars, twoVars>>
    \/ GlobResolves /\ UNCHANGED <<builderVars, requestVars, twoVars>>
    \/ GlobThrows /\ UNCHANGED <<builderVars, requestVars, twoVars>>
    \/ StatThrows /\ UNCHANGED <<builderVars, requestVars, twoVars>>
    \/ Skip /\ UNCHANGED <<builderVars, requestVars, twoVars>>
    \/ BeginImport /\ UNCHANGED <<builderVars, requestVars, twoVars>>
    \/ ImportThrows /\ UNCHANGED <<builderVars, requestVars, twoVars>>
    \/ RegisterReturns /\ UNCHANGED <<builderVars, requestVars, twoVars>>
    \/ RegisterThrows /\ UNCHANGED <<builderVars, requestVars, twoVars>>
    \/ Return /\ UNCHANGED <<builderVars, requestVars, twoVars>>

\* RouteLoader, for every NODE_ENV, pattern argument and discovery result.
Spec == Init /\ [][Next]_vars

\* RouteLoader when glob, every import and every registration function settle: an
\* async function whose awaited promises settle goes on to its next step.
SpecTerminating == Init /\ [][Next]_vars /\ WF_vars(Next)

InitBuilder == LoaderIdle /\ BuilderInit /\ RequestIdle /\ TwoIdle

NextBuilder ==
    \/ CallCreateContract /\ UNCHANGED <<loaderVars, requestVars, twoVars>>
    \/ CallBody /\ UNCHANGED <<loaderVars, requestVars, twoVars>>
    \/ CallQuery /\ UNCHANGED <<loaderVars, requestVars, twoVars>>
    \/ CallParams /\ UNCHANGED <<loaderVars, requestVars, twoVars>>
    \/ CallBuild /\ UNCHANGED <<loaderVars, requestVars, twoVars>>

\* The calls a program makes on contract builders.
SpecBuilder == InitBuilder /\ [][NextBuilder]_vars

InitValidate == LoaderIdle /\ BuilderInit /\ RequestInit /\ TwoIdle

NextValidate ==
    \/ ValidateAccepts /\ UNCHANGED <<loaderVars, builderVars, twoVars>>
    \/ ValidateRejects /\ UNCHANGED <<loaderVars, builderVars, twoVars>>
    \/ Handler /\ UNCHANGED <<loaderVars, builderVars, twoVars>>

\* One request through a route whose chain is validateContract(contract), handler,
\* for every contract a chain of setters builds and every request.
SpecValidate == InitValidate /\ [][NextValidate]_vars

InitTwo == LoaderInit /\ globPattern = Undefined /\ BuilderInit /\ RequestIdle /\ TwoIdle

NextTwo ==
    \/ TwoStart /\ TwoFrame
    \/ TwoGlobResolves /\ TwoFrame
    \/ TwoGlobThrows /\ TwoFrame
    \/ TwoStatThrows /\ TwoFrame
    \/ TwoSkip /\ TwoFrame
    \/ TwoBeginImport /\ TwoFrame
    \/ TwoImportThrows /\ TwoFrame
    \/ TwoRegisterReturns /\ TwoFrame
    \/ TwoRegisterThrows /\ TwoFrame
    \/ TwoReturn /\ TwoFrame

\* Two invocations of RouteLoader in one process, their steps interleaved at the
\* await points, for every NODE_ENV, pattern arguments and discovery results.
SpecTwo == InitTwo /\ [][NextTwo]_vars

\* ------------------------------------------------------------------------
\* Properties of RouteLoader
\* ------------------------------------------------------------------------

\* sub occurs in s as a contiguous run of tokens.
Contains(s, sub) ==
    \E k \in 0..(Len(s) - Len(sub)) : SubSeq(s, k + 1, k + Len(sub)) = sub

\* The text JavaScript gives a thrown value (String(e)).
CauseText(e) ==
    CASE e.t = "error"  -> <<e.name, ": ">> \o e.text
      [] e.t = "string" -> <<e.v>>
      [] e.t = "null"   -> <<"null">>
      [] OTHER          -> <<"undefined">>

\* The events that record a failure to load or register a candidate.
LoadFailures == { "importThrew", "threw", "notCallable" }

Failures == LoadFailures \cup { "statThrew" }

\* C1: whenever loading a candidate fails (its import throws, its default export is
\* missing or no function, or its registration function throws), RouteLoader
\* rejects with an error whose message contains the candidate's path and the text
\* of the underlying cause, and returns no router.
C1_LoadFailureNamesFileAndCause ==
    \A j \in 1..Len(log) :
        log[j].ev \in LoadFailures =>
            /\ result.state = "rejected"
            /\ Contains(result.error.text, files[log[j].at])
            /\ Contains(result.error.text, CauseText(log[j].e))

\* Every candidate was imported and its registration function registered one entry
\* on the router it received and returned that router.
AllRegistered ==
    \A k \in 1..Len(files) :
        \E j \in 1..Len(log) :
            /\ log[j].ev = "call"
            /\ log[j].at = k
            /\ log[j].does = "register"

\* C2: when every discovered file is a route module that registers one entry of
\* its own and returns the router, the router RouteLoader returns holds the entry
\* of each of the N files and nothing else, whatever the discovery order.
C2_LoaderCompleteness ==
    (pc = "assembled" /\ AllRegistered) =>
        /\ result.state = "resolved"
        /\ result.value.t = "router"
        /\ Len(result.value.entries) = Len(files)
        /\ \A k \in 1..Len(files) :
              \E n \in 1..Len(result.value.entries) :
                  result.value.entries[n] = RouteOf(files[k])

\* Three modules discovered out of lexical order have all been registered.
C2_Witness ==
    /\ pc = "assembled"
    /\ AllRegistered
    /\ files = <<P_e, P_b, P_a>>
    /\ Len(result.value.entries) = 3

\* C7: when glob throws, the error is logged, the candidate list stays empty, no
\* module is loaded, and RouteLoader goes on to resolve with an empty router; it
\* never rejects.
C7_DiscoveryErrorNonFatal ==
    (\E j \in 1..Len(log) : log[j].ev = "globThrew") =>
        /\ console = <<log[1].e>>
        /\ files = <<>>
        /\ Len(log) = 1
        /\ pc \in { "loading", "assembled" }
        /\ pc = "loading" => idx > Len(files)
        /\ pc = "loading" => result = Pending
        /\ pc = "assembled" => result = Resolved(NewRouter)

C7_Witness ==
    /\ pc = "assembled"
    /\ Len(log) = 1
    /\ log[1].ev = "globThrew"
    /\ result = Resolved(NewRouter)

\* The router value the registration call logged at position j must receive: the
\* value the latest earlier call returned, the fresh router when there is none.
Threaded(j) ==
    LET rets == { h \in 1..(j - 1) : log[h].ev = "return" }
    IN  IF rets = {} THEN NewRouter
        ELSE log[CHOOSE h \in rets : \A g \in rets : g <= h].value

\* C8: modules are loaded and registered one at a time in discovery order: an
\* import starts only after every earlier candidate's registration call has
\* returned, a loaded module is called right after its import and exactly once,
\* and it receives the router value the previous call returned (the first one the
\* fresh router).
C8_SequentialRegistration ==
    \A j \in 1..Len(log) :
        /\ log[j].ev = "import" =>
              /\ \A h \in 1..(j - 1) :
                    /\ log[h].at < log[j].at
                    /\ log[h].ev = "call" => log[h + 1].ev = "return"
              /\ j < Len(log) =>
                    /\ log[j + 1].at = log[j].at
                    /\ log[j + 1].ev \in { "call", "importThrew", "notCallable" }
        /\ log[j].ev = "call" =>
              /\ j > 1
              /\ log[j - 1] = [ev |-> "import", at |-> log[j].at]
              /\ \A h \in 1..Len(log) :
                    (log[h].ev = "call" /\ log[h].at = log[j].at) => h = j
              /\ log[j].arg = Threaded(j)
              /\ j < Len(log)
              /\ log[j + 1].ev \in { "return", "threw" }

\* The third candidate's module was called with the router the second returned.
C8_Witness ==
    /\ Len(log) = 9
    /\ log[8].ev = "call"
    /\ log[8].at = 3
    /\ log[8].arg = log[6].value
    /\ log[6].ev = "return"
    /\ log[6].value.t = "router"
    /\ Len(log[6].value.entries) = 2

\* C9: a failure to load or register candidate k is terminal: it is the last thing
\* that happens (no later candidate is imported or called), the loader is in its
\* failed state, never in the assembled one, and the promise is rejected, so the
\* router holding the earlier registrations is not returned.
C9_FailureIsTerminal ==
    \A j \in 1..Len(log) :
        log[j].ev \in Failures =>
            /\ j = Len(log)
            /\ pc = "failed"
            /\ result.state = "rejected"
            /\ idx = log[j].at

\* The second of three candidates failed after the first had registered its entry.
C9_Witness ==
    /\ pc = "failed"
    /\ Len(files) = 3
    /\ idx = 2
    /\ log[Len(log)].ev = "threw"
    /\ router.t = "router"
    /\ Len(router.entries) = 1
    /\ PassesFilter(files[3], expectedExtension)

Development == StringVal("development")

\* C10 as stated: the default pattern and the extension follow NODE_ENV
\* (src/routes/*.ts and .ts for 'development', dist/routes/*.js and .js for any
\* other value or none), and whenever a pattern argument is given it is the
\* pattern used.
C10_ExplicitPatternAlwaysUsed ==
    pc # "idle" =>
        /\ expectedExtension =
              (IF nodeEnv = Development THEN <<".", "t", "s">> ELSE <<".", "j", "s">>)
        /\ globPattern = Undefined =>
              pattern = (IF nodeEnv = Development THEN StringVal("src/routes/*.ts")
                         ELSE StringVal("dist/routes/*.js"))
        /\ globPattern # Undefined => pattern = globPattern

\* C10, amended: as above, but only a non-empty pattern argument replaces the
\* default; an empty string falls back to the default of the mode like no argument.
C10_ModeAndPattern ==
    pc # "idle" =>
        /\ expectedExtension =
              (IF nodeEnv = Development THEN <<".", "t", "s">> ELSE <<".", "j", "s">>)
        /\ globPattern \in { Undefined, StringVal("") } =>
              pattern = (IF nodeEnv = Development THEN StringVal("src/routes/*.ts")
                         ELSE StringVal("dist/routes/*.js"))
        /\ globPattern \notin { Undefined, StringVal("") } => pattern = globPattern

\* An explicit pattern is in use in development mode, with the .ts extension.
C10_Witness ==
    /\ pc = "loading"
    /\ nodeEnv = Development
    /\ globPattern = StringVal("custom/*")
    /\ pattern = StringVal("custom/*")
    /\ expectedExtension = <<".", "t", "s">>

\* ------------------------------------------------------------------------
\* Properties of the contract builder and of validation
\* ------------------------------------------------------------------------

\* The schema the calls leave in facet f: the last one set, "unset" when none was.
RECURSIVE LastSet(_, _)
LastSet(setters, f) ==
    IF setters = <<>> THEN "unset"
    ELSE IF setters[Len(setters)].facet = f THEN setters[Len(setters)].schema
    ELSE LastSet(Front(setters), f)

FinalOf(setters) == [f \in Facets |-> LastSet(setters, f)]

IsPrefix(b, chain) == Len(b) <= Len(chain) /\ SubSeq(chain, 1, Len(b)) = b

\* The calls made on b to get chain.
After(chain, b) == SubSeq(chain, Len(b) + 1, Len(chain))

\* What a contract does with every request: accept with a parsed value, or reject
\* with violations.
BehaviourTable ==
    [c \in { z_object([f \in Facets |-> SchemaOf(n[f])]) :
                n \in [Facets -> SetterSchemas \cup { "EMPTY_SCHEMA" }] } |->
        [I \in Requests |-> Parse(c, RequestInput(I))]]

BehaviourOf(c) ==
    IF c \in DOMAIN BehaviourTable THEN BehaviourTable[c]
    ELSE [I \in Requests |-> Parse(c, RequestInput(I))]

\* The schema facet f of a route's contract must hold, read off the setter calls.
FacetSchema(setters, f) ==
    LET last == LastSet(setters, f)
    IN  IF last = "unset" THEN z_object(<<>>) ELSE SchemaOf(last)

Rejected4xx ==
    /\ rpc = "done"
    /\ nextCalls = 0
    /\ response # None
    /\ response.status \in 400..499
    /\ request.validated = Undefined

\* C3 as stated: a contract built without calling the setter of a facet rejects
\* every request whose value for that facet has at least one key.
C3_UnsetFacetRejectsKeys ==
    \A f \in Facets :
        ( /\ rpc # "received"
          /\ LastSet(calls, f) = "unset"
          /\ request[f].t = "object"
          /\ DOMAIN request[f].fields # {} ) => Rejected4xx

\* C3, amended: a facet whose setter was never called accepts every object,
\* whatever its keys, and its parsed value is the empty object (the keys are
\* stripped); no violation is ever reported for a key of such a facet, and the
\* facet rejects only a value that is no object.
C3_UnsetFacetStripsKeys ==
    \A f \in Facets :
        (rpc # "received" /\ LastSet(calls, f) = "unset") =>
            /\ nextCalls = 1 => Get(request.validated, f) = EmptyObject
            /\ (request[f].t = "object" /\ Rejected4xx) =>
                  \A i \in response.json.errors : i.path[1] # f
            /\ request[f].t # "object" =>
                  /\ Rejected4xx
                  /\ \E i \in response.json.errors : i.path = <<f>>

\* A request with a query key went through a contract that sets only the body.
C3_Witness ==
    /\ rpc = "handler"
    /\ calls = <<SetterCall("body", "PageSchema")>>
    /\ "name" \in DOMAIN request.query.fields
    /\ request.validated.fields["query"] = EmptyObject

\* Two contracts do the same with every request (equal contracts need no look at
\* the requests).
SameBehaviour(k1, k2) == k1 = k2 \/ BehaviourOf(k1) = BehaviourOf(k2)

\* C4: two chains of setter calls on one builder that leave the same final value
\* in each facet build contracts that accept the same requests and give the same
\* parsed value, or the same violations, for every request.
C4_FacetCommutativity ==
    \A c1 \in DOMAIN refOf :
        \A n \in 0..Len(c1) :
            LET b == SubSeq(c1, 1, n)
                final == FinalOf(After(c1, b))
            IN  \A c2 \in DOMAIN refOf :
                    ( /\ c2 # c1
                      /\ IsPrefix(b, c2)
                      /\ FinalOf(After(c2, b)) = final ) =>
                        SameBehaviour(build(heap, refOf[c1]), build(heap, refOf[c2]))

\* b.body(A).query(B) and b.query(B).body(A) have both been made.
C4_Witness ==
    LET c1 == << SetterCall("body", "ExampleSchema"), SetterCall("query", "PageSchema") >>
        c2 == << SetterCall("query", "PageSchema"), SetterCall("body", "ExampleSchema") >>
    IN  /\ c1 \in DOMAIN refOf
        /\ c2 \in DOMAIN refOf
        /\ refOf[c1] # refOf[c2]
        /\ build(heap, refOf[c1]) = build(heap, refOf[c2])

\* C5: a facet setter returns a new instance whose named facet is the schema given
\* and whose other two facets are the receiver's; no existing instance, the
\* receiver included, is changed by the call.
C5_SetterFrame ==
    [][ \A chain \in (DOMAIN refOf') \ (DOMAIN refOf) :
          chain # <<>> =>
            LET this == refOf[Front(chain)]
                call == chain[Len(chain)]
                new  == refOf'[chain]
            IN  /\ new \notin DOMAIN heap
                /\ new \in DOMAIN heap'
                /\ heap'[new].schemas[call.facet] = call.schema
                /\ \A g \in Facets \ { call.facet } :
                      heap'[new].schemas[g] = heap[this].schemas[g]
                /\ \A a \in DOMAIN heap : a \in DOMAIN heap' /\ heap'[a] = heap[a]
      ]_vars

\* From one builder that has a params schema, body(A) and query(B) were called:
\* each result has its own facet and neither has the other's.
C5_Witness ==
    LET b  == << SetterCall("params", "PageSchema") >>
        c1 == Append(b, SetterCall("body", "ExampleSchema"))
        c2 == Append(b, SetterCall("query", "ExampleSchema"))
    IN  /\ c1 \in DOMAIN refOf
        /\ c2 \in DOMAIN refOf
        /\ heap[refOf[c1]].schemas =
              [body |-> "ExampleSchema", query |-> "EMPTY_SCHEMA", params |-> "PageSchema"]
        /\ heap[refOf[c2]].schemas =
              [body |-> "EMPTY_SCHEMA", query |-> "ExampleSchema", params |-> "PageSchema"]
        /\ heap[refOf[b]].schemas =
              [body |-> "EMPTY_SCHEMA", query |-> "EMPTY_SCHEMA", params |-> "PageSchema"]

\* C6: once the middleware has run, exactly one of two things has happened. If
\* each facet of the request is accepted by the contract's schema for it, the
\* parsed value (defaults and coercions applied) is attached as validated, next()
\* was called once and the middleware sent no response. If not, a 4xx response was
\* sent, next() was never called and nothing is attached.
C6_ValidateOrReject ==
    LET parsed == [f \in Facets |-> Parse(FacetSchema(calls, f), request[f])]
        accepted == \A f \in Facets : parsed[f].success
    IN  /\ rpc = "received" =>
              nextCalls = 0 /\ response = None /\ request.validated = Undefined
        /\ (rpc # "received" /\ accepted) =>
              /\ request.validated = ObjectVal([f \in Facets |-> parsed[f].data])
              /\ nextCalls = 1
              /\ rpc = "handler" => response = None
              /\ rpc = "done" => response.status \notin 400..499
        /\ (rpc # "received" /\ ~accepted) => Rejected4xx

\* A query without a page went through a contract whose query has a page default,
\* and the handler's turn has come with the default attached.
C6_Witness ==
    /\ rpc = "handler"
    /\ nextCalls = 1
    /\ response = None
    /\ calls = << SetterCall("query", "PageSchema"), SetterCall("params", "PageSchema") >>
    /\ request.query = EmptyObject
    /\ request.params = ObjectVal([k \in { "page" } |-> StringVal(<<"4", "2">>)])
    /\ request.validated.fields["query"] = ObjectVal([k \in { "page" } |-> NumberVal(1)])
    /\ request.validated.fields["params"] = ObjectVal([k \in { "page" } |-> NumberVal(42)])

\* The violations the schema of facet f reports for the request's facet, each
\* with its path below the facet.
ViolationsOf(f) ==
    LET r == Parse(FacetSchema(calls, f), request[f])
    IN  IF r.success THEN {}
        ELSE { [path |-> <<f>> \o i.path, message |-> i.message] : i \in r.issues }

\* C11: the body of the 4xx response lists every violation found in body, query
\* and params, each with its field path and its message, and nothing else: the set
\* of entries equals the set of violations, never only the first of them.
C11_AllViolationsListed ==
    (rpc = "done" /\ nextCalls = 0) =>
        /\ response.status \in 400..499
        /\ response.json.errors = UNION { ViolationsOf(f) : f \in Facets }
        /\ \A e \in response.json.errors : e.path # <<>> /\ e.message # ""

\* A request without name and description in its query and with a page in its
\* params that is no number was rejected with three entries, over two facets.
C11_Witness ==
    /\ rpc = "done"
    /\ nextCalls = 0
    /\ calls = << SetterCall("query", "ExampleSchema"), SetterCall("params", "PageSchema") >>
    /\ request.params = ObjectVal([k \in { "page" } |-> StringVal(<<"x">>)])
    /\ Cardinality(response.json.errors) = 3
    /\ \E e \in response.json.errors : e.path = <<"query", "name">>
    /\ \E e \in response.json.errors : e.path = <<"query", "description">>
    /\ \E e \in response.json.errors : e.path = <<"params", "page">>

\* The state of the loader's state machine: importing is part of loading a file.
PhaseOf(at) == IF at = "importing" THEN "loading" ELSE at

Terminal == { "assembled", "failed" }

PhaseSteps ==
    { <<"idle", "discovering">>, <<"discovering", "loading">>, <<"loading", "loading">>,
      <<"loading", "assembled">>, <<"loading", "failed">> }

Handled(k) == k < idx \/ (k = idx /\ pc \in { "importing", "failed" })

\* The candidate is a regular file with the extension of the mode, in any case.
Eligible(p) ==
    /\ FsKind(p) = "file"
    /\ toLowerCase(extname(p)) =
          (IF nodeEnv = Development THEN <<".", "t", "s">> ELSE <<".", "j", "s">>)

\* C13: a candidate is imported if and only if it is a regular file whose
\* extension, compared case-insensitively, is the extension of the mode; every
\* other candidate is skipped: nothing is imported or called for it, no error is
\* raised for it and the loop goes on, whatever pattern the candidates come from.
C13_CandidateFilter ==
    \A k \in 1..Len(files) :
        Handled(k) =>
            /\ Eligible(files[k]) <=>
                  (\E j \in 1..Len(log) : log[j] = [ev |-> "import", at |-> k])
            /\ ~Eligible(files[k]) =>
                  /\ \A j \in 1..Len(log) : log[j].at # k
                  /\ k < idx

\* C14: on GET /test, whose chain is validateContract(ContractsExample) and then
\* ExampleController.mymethod, the handler's turn comes only after the validation
\* of the request succeeded: validated.query is then present with name and
\* description set to the request's strings, the 200 response echoes them, and a
\* request answered with the 4xx validation response never reaches the handler.
C14_HandlerAfterValidation ==
    LET q == Get(request.validated, "query")
        present ==
            /\ nextCalls = 1
            /\ q.t = "object"
            /\ Get(q, "name").t = "string"
            /\ Get(q, "description").t = "string"
            /\ Get(q, "name") = Get(request.query, "name")
            /\ Get(q, "description") = Get(request.query, "description")
    IN  calls = ContractsExampleCalls =>
            /\ rpc = "handler" => (present /\ response = None)
            /\ (response # None /\ response.status = 200) =>
                  /\ present
                  /\ rpc = "done"
                  /\ response.json.vars.name = Get(request.query, "name")
                  /\ response.json.vars.description = Get(request.query, "description")
            /\ (response # None /\ response.status \in 400..499) =>
                  /\ nextCalls = 0
                  /\ rpc = "done"
                  /\ request.validated = Undefined
            /\ (rpc = "done" /\ nextCalls = 0) => response.status \in 400..499

\* The handler answered a request that has a name and a description and no phone.
C14_Witness ==
    /\ calls = ContractsExampleCalls
    /\ rpc = "done"
    /\ response.status = 200
    /\ response.json.vars.name = StringVal(<<"x">>)
    /\ response.json.vars.description = StringVal(<<"4", "2">>)
    /\ response.json.vars.phone = Undefined

\* The combined schema c is an object schema with exactly the keys body, query
\* and params, each the schema the instance at address a holds for that facet.
CombinesFacetsOf(c, a) ==
    /\ c.t = "object"
    /\ DOMAIN c.shape = Facets
    /\ \A f \in Facets : c.shape[f] = SchemaOf(heap[a].schemas[f])

C16_NonRouterReturnIsFatal ==
    /\ result.state = "resolved" => result.value.t = "router"
    /\ \A j \in 1..Len(log) :
          /\ log[j].ev = "call" => log[j].arg.t = "router"
          /\ (pc \in Terminal /\ log[j].ev = "return" /\ log[j].value.t # "router") =>
                /\ result.state = "rejected"
                /\ Contains(result.error.text, files[log[j].at])

\* The positions in log of the registration calls.
CallsAt == { j \in 1..Len(log) : log[j].ev = "call" }

\* The entries the calls at the positions in S registered, in the order of the calls.
EntriesOf(S) ==
    [n \in 1..Cardinality(S) |->
        LET j == CHOOSE j \in S : Cardinality({ h \in S : h < j }) = n - 1
        IN  RouteOf(files[log[j].at])]

\* The calls whose entries are on the instance the last call returned: those from
\* the last call that returned a router of its own on, all of them when there is
\* no such call.
SinceLastReplacement ==
    LET replaced == { j \in CallsAt : log[j].does = "replace" }
    IN  { j \in CallsAt : \A h \in replaced : h <= j }

\* C17 as stated: the router returned holds the entry of every loaded module in
\* discovery order, also when a module returned a different router instance than
\* the one it received.
C17_AllEntriesKept ==
    (pc = "assembled" /\ result.value.t = "router") =>
        result.value.entries = EntriesOf(CallsAt)

\* C17, amended: RouteLoader returns the value the last loaded module returned
\* (the fresh router when none was loaded). When that is a router, it holds, in
\* discovery order, the entries of the modules loaded since the last module that
\* returned a router of its own, that module included; the entries registered
\* before on the instance that module received are not in it. It holds the
\* entries of all loaded modules when no module replaced the router.
C17_LastReturnedRouter ==
    pc = "assembled" =>
        /\ result = Resolved(Threaded(Len(log) + 1))
        /\ result.value.t = "router" =>
              result.value.entries = EntriesOf(SinceLastReplacement)

\* Of three loaded modules the second returned a router of its own: the router
\* returned holds the entries of the second and the third, not that of the first.
C17_Witness ==
    /\ pc = "assembled"
    /\ Len(files) = 3
    /\ Len(log) = 9
    /\ log[2].does = "register"
    /\ log[5].does = "replace"
    /\ log[8].does = "register"
    /\ result.value.entries = << RouteOf(files[2]), RouteOf(files[3]) >>

\* What RouteLoader settles with when it runs alone over the candidates fs from
\* position k on with router r, the imports settling as the registry says.
RECURSIVE AloneFrom(_, _, _)
AloneFrom(fs, k, r) ==
    IF k > Len(fs) THEN Resolved(r)
    ELSE IF FsKind(fs[k]) = "missing"
    THEN Rejected(ErrorVal("Error",
             <<"ENOENT: no such file or directory, stat '">> \o fs[k] \o <<"'">>))
    ELSE IF ~Eligible(fs[k]) THEN AloneFrom(fs, k + 1, r)
    ELSE LET o == imported[fs[k]]
         IN  IF ~o.ok THEN Rejected(WrapError(fs[k], o.e))
             ELSE LET c == CallModule(o.module, fs[k], r)
                  IN  IF c.threw THEN Rejected(WrapError(fs[k], c.e))
                      ELSE AloneFrom(fs, k + 1, c.value)

\* C18: of two invocations of RouteLoader whose steps interleave at their await
\* points, each assembles a router of its own: every entry of the router an
\* invocation holds or returns was registered by a registration call that
\* invocation made, once per call, and what each invocation settles with is what
\* it would settle with when run alone over its candidates.
C18_InvocationsIndependent ==
    \A i \in Invocations :
        /\ inv[i].pc \in Terminal => inv[i].result = AloneFrom(inv[i].files, 1, NewRouter)
        /\ inv[i].router.t = "router" =>
              /\ Len(inv[i].router.entries) <= Len(inv[i].regs)
              /\ \A n \in 1..Len(inv[i].router.entries) :
                    \E k \in 1..Len(inv[i].regs) :
                        inv[i].router.entries[n] = RouteOf(inv[i].regs[k])
        /\ inv[i].result.state = "resolved" => inv[i].result.value = inv[i].router

\* The first invocation has returned a router with the entries of its two modules
\* while the second, over the same two files in the other order, has registered
\* one and is awaiting the import of the other.
C18_Witness ==
    /\ inv[1].pc = "assembled"
    /\ inv[1].files = <<P_a, P_b>>
    /\ inv[1].result.value = [t |-> "router", entries |-> <<RouteOf(P_a), RouteOf(P_b)>>]
    /\ inv[2].pc = "importing"
    /\ inv[2].files = <<P_b, P_a>>
    /\ inv[2].idx = 2
    /\ inv[2].router = [t |-> "router", entries |-> <<RouteOf(P_b)>>]

====
